---- MODULE Spec2Model ----
(***************************************************************************)
(* Model of the kivoa-controlhub backend job pipeline:                     *)
(*   - the category-scoped SKU allocator (Category.generate_sku) as used   *)
(*     by the write transactions of bulk_create_products / update_product, *)
(*   - the image enrichment worker loop (WorkerThread.run /                *)
(*     process_product),                                                   *)
(*   - the catalog sync worker loop (CatalogSyncWorker.run /               *)
(*     sync_product_to_shopify).                                           *)
(* The database is PostgreSQL at its default isolation level (READ         *)
(* COMMITTED): a plain SELECT takes no lock and sees the last committed    *)
(* value, an UPDATE of a row waits for the row lock and then overwrites.   *)
(***************************************************************************)
EXTENDS Integers, Sequences, FiniteSets, TLC

(* ------------------------------ bounds --------------------------------- *)
MaxTxns == 2          \* concurrent API write transactions (request threads)
MaxBatch == 2         \* products per bulk request
MaxRequests == 2      \* API write requests issued in one behaviour
MaxProducts == 1      \* product rows in the pipeline specifications
MaxMessages == 1      \* messages ever sent to one queue
MaxDeliveries == 2    \* deliveries of one message (broker redelivery cap)
MaxPrompts == 2       \* prompt rows in the prompt API specification
\* largest quantity of a place_order request
MaxQuantity == 2

(* --------------------------- program constants ------------------------- *)
ENHANCED_IMAGES_COUNT == 3
ZFILL_WIDTH == 4

Categories == {1, 2}
PurchaseMonths == {"0124", "0224"}
Txns == 1..MaxTxns
NoTxn == 0
None == "None"
\* a NULL title or handle (values of these columns are sequences), and the
\* product local of a handler before the row is loaded
NullText == <<>>
NoRow == [id |-> 0]

VARIABLES
    sku_sequence_number,   \* categories.sku_sequence_number, committed
    products,              \* committed rows of table products, by id
    product_images,        \* committed rows of table product_images
    raw_images,            \* committed rows of table raw_images (by url)
    products_id_seq,       \* products.id sequence (never rolled back)
    images_id_seq,         \* product_images.id sequence
    rowLock,               \* row lock on each categories row
    txn,                   \* per request thread: its open transaction
    allocLog,              \* ghost: sequence numbers of committed allocations
    requests,              \* API write requests issued so far
    prompts,               \* committed rows of table prompts, by id
    s3,                    \* blob store: object key -> content
    queue,                 \* per logical queue: the messages the broker holds
    sent,                  \* per logical queue: messages sent so far
    worker,                \* WorkerThread: position and locals of run()
    runs,                  \* ghost: per product, the successful AI-branch runs
                           \* since the row was last written by the API
    syncw,                 \* CatalogSyncWorker: position and locals of run()
    shopify,               \* remote catalog: the listings of the storefront
    running,               \* per worker thread: its self.running flag
    response,              \* ghost: the response to the last bulk_create_products
                           \* or prompt API request (operation, status code, id)
    stop_called,           \* ghost: per worker thread, stop() was called on it
    inventory,             \* products.inventory, committed, by product id
    orders                 \* per request thread: its place_order request

dbVars == <<sku_sequence_number, products, product_images, raw_images,
            products_id_seq, images_id_seq>>
txnVars == <<rowLock, txn, allocLog, requests>>
syncVars == <<syncw, shopify>>
orderVars == <<inventory, orders>>
pipeVars == <<prompts, s3, queue, sent, worker, runs, syncw, shopify, running, response, stop_called, orderVars>>
vars == <<sku_sequence_number, products, product_images, raw_images,
          products_id_seq, images_id_seq, rowLock, txn, allocLog, requests,
          prompts, s3, queue, sent, worker, runs, syncw, shopify, running, response, stop_called, orderVars>>

(* ------------------------------ helpers -------------------------------- *)
RECURSIVE Digits(_)
\* str(n) for n >= 0, as a sequence of decimal digits
Digits(n) == IF n < 10 THEN <<n>> ELSE Append(Digits(n \div 10), n % 10)

RECURSIVE Zfill(_, _)
\* str.zfill(width): left-pad with zeros up to width, never truncate
Zfill(s, width) == IF Len(s) >= width THEN s ELSE Zfill(<<0>> \o s, width)

\* mutant: the sequence number is written without padding
FormatSku_NoPad(prefix, n, purchase_month) == <<prefix, Digits(n), purchase_month>>

\* f"{self.prefix}-{sequence}-{purchase_month}"
FormatSku(prefix, n, purchase_month) ==
    <<prefix, Zfill(Digits(n), ZFILL_WIDTH), purchase_month>>

\* categories.prefix (unique per category)
Prefix(c) == IF c = 1 THEN "NECK" ELSE "RING"

\* Category.generate_sku applied to a loaded counter value: the new counter,
\* the sku and the sequence number returned
generate_sku(counter, c, purchase_month) ==
    [counter |-> counter + 1,
     sku |-> FormatSku(Prefix(c), counter + 1, purchase_month),
     sequence_number |-> counter + 1]

\* function update / extension
Put(f, k, v) == [x \in DOMAIN f \cup {k} |-> IF x = k THEN v ELSE f[x]]
Range(s) == {s[i] : i \in DOMAIN s}

(* ===================== SKU allocation transactions ===================== *)
(* One open SQLAlchemy session per request thread.  sess is the session's  *)
(* identity map of Category rows: the counter value as loaded (and then    *)
(* modified in Python); pending are the product rows flushed but not yet   *)
(* committed.                                                              *)
EmptyMap == [x \in {} |-> 0]
\* jsonify(...), <status code>: what a request handler returns
Response(op, code, id) == [op |-> op, code |-> code, id |-> id]
NoResponse == Response(None, None, 0)

IdleTxn == [pc |-> "idle", kind |-> None, remaining |-> 0, sess |-> EmptyMap,
            cur |-> None, pending |-> <<>>, target |-> 0]

\* Product(...) row as constructed by bulk_create_products
NewProduct(id, c, g, purchase_month, status) ==
    [id |-> id, category_id |-> c, sku |-> g.sku,
     sku_sequence_number |-> g.sequence_number,
     purchase_month |-> purchase_month, status |-> status,
     title |-> NullText, description |-> None, handle |-> NullText]

\* unique constraint products.sku against the committed rows (other than id)
SkuTaken(sku, id) == \E q \in DOMAIN products : q # id /\ products[q].sku = sku

\* Category.query...first(): the identity map wins when the row is loaded,
\* otherwise the last committed value is read (no FOR UPDATE)
LoadCounter(sess, c) == IF c \in DOMAIN sess THEN sess[c] ELSE sku_sequence_number[c]

\* db.session.rollback() / session teardown: locks released, nothing written
Rollback(t) ==
    /\ txn' = [txn EXCEPT ![t] = IdleTxn]
    /\ rowLock' = [c \in Categories |-> IF rowLock[c] = t THEN NoTxn ELSE rowLock[c]]

\* bulk_create_products: request accepted, the loop over products_data starts
BulkBegin(t, n) ==
    /\ txn[t].pc = "idle"
    /\ requests < MaxRequests
    /\ requests' = requests + 1
    /\ txn' = [txn EXCEPT ![t] = [IdleTxn EXCEPT !.pc = "loop", !.kind = "bulk",
                                                 !.remaining = n]]
    /\ UNCHANGED <<dbVars, rowLock, allocLog>>
    /\ UNCHANGED pipeVars

\* one loop iteration up to db.session.add(product): category lookup,
\* generate_sku on the loaded row, Product(...) construction
BulkGenerate(t, c, purchase_month) ==
    /\ txn[t].pc = "loop"
    /\ products_id_seq < MaxRequests * MaxBatch
    /\ LET g == generate_sku(LoadCounter(txn[t].sess, c), c, purchase_month)
       IN txn' = [txn EXCEPT ![t].pc = "flush",
                             ![t].sess = Put(txn[t].sess, c, g.counter),
                             ![t].cur = NewProduct(0, c, g, purchase_month, "pending")]
    /\ UNCHANGED <<dbVars, rowLock, allocLog, requests>>
    /\ UNCHANGED pipeVars

\* validation error or unknown category at some index: the request ends
\* with 400/500 and the session is discarded
BulkReject(t) ==
    /\ txn[t].pc = "loop"
    /\ Rollback(t)
    /\ UNCHANGED <<dbVars, allocLog, requests>>
    /\ UNCHANGED pipeVars

\* db.session.flush(): UPDATE categories (waits for the row lock), INSERT
\* products (unique sku); an IntegrityError ends the request with rollback
BulkFlush(t) ==
    /\ txn[t].pc = "flush"
    /\ LET row == txn[t].cur
           c == row.category_id
       IN /\ rowLock[c] \in {NoTxn, t}
          /\ products_id_seq' = products_id_seq + 1
          /\ IF SkuTaken(row.sku, 0) \/ \E i \in DOMAIN txn[t].pending :
                                          txn[t].pending[i].sku = row.sku
             THEN Rollback(t)
             ELSE /\ rowLock' = [rowLock EXCEPT ![c] = t]
                  /\ txn' = [txn EXCEPT
                        ![t].pending = Append(@, [row EXCEPT !.id = products_id_seq + 1]),
                        ![t].cur = None,
                        ![t].remaining = @ - 1,
                        ![t].pc = IF txn[t].remaining > 1 THEN "loop" ELSE "commit"]
    /\ UNCHANGED <<sku_sequence_number, products, product_images, raw_images,
                   images_id_seq, allocLog, requests>>
    /\ UNCHANGED pipeVars

\* the counters written by transaction t become the committed values
CommitCounters(t) ==
    [c \in Categories |-> IF c \in DOMAIN txn[t].sess THEN txn[t].sess[c]
                          ELSE sku_sequence_number[c]]

RECURSIVE InsertAll(_, _)
InsertAll(tbl, rows) ==
    IF rows = <<>> THEN tbl
    ELSE InsertAll(Put(tbl, Head(rows).id, Head(rows)), Tail(rows))

RECURSIVE LogAll(_, _)
LogAll(log, rows) ==
    IF rows = <<>> THEN log
    ELSE LogAll([log EXCEPT ![Head(rows).category_id] =
                      Append(@, Head(rows).sku_sequence_number)], Tail(rows))

\* db.session.commit() of the creating transaction
BulkCommit(t) ==
    /\ txn[t].pc = "commit"
    /\ products' = InsertAll(products, txn[t].pending)
    /\ sku_sequence_number' = CommitCounters(t)
    /\ allocLog' = LogAll(allocLog, txn[t].pending)
    /\ Rollback(t)
    /\ UNCHANGED <<product_images, raw_images, products_id_seq, images_id_seq, requests>>
    /\ UNCHANGED pipeVars

\* update_product with a changed category or purchase_month: the product and
\* the category are loaded and generate_sku runs on the loaded counter
UpdateBegin(t, pid, c, purchase_month) ==
    /\ txn[t].pc = "idle"
    /\ requests < MaxRequests
    /\ pid \in DOMAIN products
    /\ c # products[pid].category_id \/ purchase_month # products[pid].purchase_month
    /\ requests' = requests + 1
    /\ LET g == generate_sku(sku_sequence_number[c], c, purchase_month)
       IN txn' = [txn EXCEPT ![t] =
                    [IdleTxn EXCEPT !.pc = "upd_commit", !.kind = "update",
                        !.target = pid,
                        !.sess = Put(EmptyMap, c, g.counter),
                        !.cur = [products[pid] EXCEPT
                                    !.sku = g.sku,
                                    !.sku_sequence_number = g.sequence_number,
                                    !.category_id = c,
                                    !.purchase_month = purchase_month]]]
    /\ UNCHANGED <<dbVars, rowLock, allocLog>>
    /\ UNCHANGED pipeVars

\* db.session.commit() of update_product: flush (UPDATE categories, UPDATE
\* products) and commit in one call
UpdateCommit(t) ==
    /\ txn[t].pc = "upd_commit"
    /\ LET row == txn[t].cur
           c == row.category_id
       IN /\ rowLock[c] = NoTxn
          /\ IF SkuTaken(row.sku, row.id) \/ row.id \notin DOMAIN products
             THEN UNCHANGED <<products, sku_sequence_number, allocLog>>
             ELSE /\ products' = Put(products, row.id, row)
                  /\ sku_sequence_number' = CommitCounters(t)
                  /\ allocLog' = [allocLog EXCEPT ![c] = Append(@, row.sku_sequence_number)]
    /\ Rollback(t)
    /\ UNCHANGED <<product_images, raw_images, products_id_seq, images_id_seq, requests>>
    /\ UNCHANGED pipeVars


\* update_category (PUT /categories/<id>) with sku_sequence_number in the
\* payload: CategoryCreateUpdateSchema accepts any integer >= 0, the handler
\* copies every validated field onto the row with setattr and commits. The
\* UPDATE waits for the row lock of a transaction that flushed the row.
update_category(c, n) ==
    /\ requests < MaxRequests
    /\ rowLock[c] = NoTxn
    /\ requests' = requests + 1
    /\ sku_sequence_number' = [sku_sequence_number EXCEPT ![c] = n]
    /\ UNCHANGED <<products, product_images, raw_images, products_id_seq,
                   images_id_seq, rowLock, txn, allocLog>>
    /\ UNCHANGED pipeVars

(* ======================== enrichment pipeline ========================== *)
PromptIds == {1}
QueueTypes == {"image_processing", "catalog_sync"}
Outcomes == {"ok", "fail"}
\* what the fetch of product.raw_image can end in (download_image)
DownloadOutcomes == {"ok", "http_404", "invalid_image"}

\* f"product-images/{product.sku}-{idx}{file_extension}"; upload_file maps
\* the key one-to-one to the returned url, so the key stands for the url
S3Key(sku, idx, ext) == <<"product-images", sku, idx, ext>>

\* download_image returns the path written by validate_and_convert_image,
\* which always ends in "_validated.jpg"
ValidatedExt == ".jpg"

ImagesOf(pid) == {r \in product_images : r.product_id = pid}
Queued(q) == {m.id : m \in queue[q]}
Msg(q, id) == CHOOSE m \in queue[q] : m.id = id

\* sqs_service.send_message / send_catalog_sync_message: the broker stores
\* the body, visible to consumers
Enqueue(q, body) ==
    [queue EXCEPT ![q] = @ \cup {[id |-> sent[q] + 1, body |-> body,
                                  visible |-> TRUE, receives |-> 0]}]

\* receive_message: the message is hidden for one visibility timeout
Hide(q, m) ==
    [queue EXCEPT ![q] = (@ \ {m}) \cup {[m EXCEPT !.visible = FALSE,
                                                    !.receives = @ + 1]}]

\* delete_message(receipt_handle)
Remove(q, id) == [queue EXCEPT ![q] = {m \in @ : m.id # id}]

IdleWorker ==
    [pc |-> "receive", msg |-> 0, product_id |-> 0, prompt_id |-> 0,
     is_raw_image |-> TRUE, product |-> NoRow, title |-> NullText,
     description |-> None, handle |-> NullText, i |-> 0,
     created_image_urls |-> <<>>, gen_calls |-> 0,
     success |-> None, cause |-> None]

\* mutant: a failed handling is acknowledged like a successful one
FailRun_Acks(cause) ==
    worker' = [worker EXCEPT !.pc = "delete", !.success = "False", !.cause = cause]

\* process_product returned False (explicit return, or the except clause
\* with db.session.rollback()): run() logs a warning and polls again; the
\* message is not deleted
FailRun(cause) ==
    worker' = [IdleWorker EXCEPT !.msg = worker.msg, !.success = "False",
                                 !.cause = cause]

\* json.loads(message['Body']) succeeds: the body is a JSON object
IsJson(body) == "raw" \notin DOMAIN body

\* body.get(key), 0 standing for an absent or falsy value
Get(body, key) == IF IsJson(body) /\ key \in DOMAIN body THEN body[key] ELSE 0

\* run(): self.running = True, the first statement of the thread
W_Start ==
    /\ worker.pc = "start"
    /\ running' = [running EXCEPT !["enrich"] = TRUE]
    /\ worker' = IdleWorker
    /\ UNCHANGED <<dbVars, txnVars, prompts, s3, queue, sent, runs, syncVars, response, stop_called, orderVars>>

\* WorkerThread.stop(), called on a thread that is alive (stop_worker)
stop_worker ==
    /\ worker.pc # "stopped"
    /\ running["enrich"]
    /\ running' = [running EXCEPT !["enrich"] = FALSE]
    /\ stop_called' = [stop_called EXCEPT !["enrich"] = TRUE]
    /\ UNCHANGED <<dbVars, txnVars, prompts, s3, queue, sent, worker, runs, syncVars, response, orderVars>>

\* stop_worker between _worker_thread.start() and the first statement of
\* run(): is_alive() is True already, stop() assigns False to a flag that is
\* still False
stop_worker_at_start ==
    /\ worker.pc = "start"
    /\ ~stop_called["enrich"]
    /\ running' = [running EXCEPT !["enrich"] = FALSE]
    /\ stop_called' = [stop_called EXCEPT !["enrich"] = TRUE]
    /\ UNCHANGED <<dbVars, txnVars, prompts, s3, queue, sent, worker, runs, syncVars, response, orderVars>>

\* while self.running: evaluated False, run() returns
W_Exit ==
    /\ worker.pc = "receive"
    /\ ~running["enrich"]
    /\ worker' = [worker EXCEPT !.pc = "stopped"]
    /\ UNCHANGED <<dbVars, txnVars, prompts, s3, queue, sent, runs>>
    /\ UNCHANGED <<syncVars, running, response, stop_called, orderVars>>

\* mutant: an exception of one cycle ends the loop
AfterError_Exit == "stopped"

\* where the loop is after an except clause of run(): at the next
\* evaluation of while self.running
AfterError == "receive"

\* an exception of the handling of one message caught by the inner except
\* of run(): logged, the message is not deleted
Abandon(cause) ==
    worker' = [IdleWorker EXCEPT !.pc = AfterError, !.msg = worker.msg,
                                 !.cause = cause]

\* run(): while self.running evaluated True and receive_messages raised; the
\* outer except logs, sleeps and the loop goes on
W_ReceiveFails ==
    /\ worker.pc = "receive"
    /\ running["enrich"]
    /\ worker.cause # "receive_error"
    /\ worker' = [IdleWorker EXCEPT !.pc = AfterError, !.cause = "receive_error"]
    /\ UNCHANGED <<dbVars, txnVars, prompts, s3, queue, sent, runs>>
    /\ UNCHANGED <<syncVars, running, response, stop_called, orderVars>>

\* run(): while self.running evaluated True and receive_messages returned
\* one message; its parsed body (json.loads, body.get) is kept in the locals
W_Receive(m) ==
    /\ worker.pc = "receive"
    /\ running["enrich"]
    /\ m \in queue["image_processing"]
    /\ m.visible
    /\ queue' = Hide("image_processing", m)
    /\ worker' = [IdleWorker EXCEPT
            !.pc = "load",
            !.msg = m.id,
            !.product_id = Get(m.body, "product_id"),
            !.prompt_id = Get(m.body, "prompt_id"),
            !.is_raw_image = IF IsJson(m.body) THEN m.body.is_raw_image ELSE TRUE]
    /\ UNCHANGED <<dbVars, txnVars, prompts, s3, sent, runs>>
    /\ UNCHANGED <<syncVars, running, response, stop_called, orderVars>>

\* run(): for message in messages: if not self.running: break; then the
\* parse of the body, and process_product up to Product.query.get(product_id)
W_Load ==
    /\ worker.pc = "load"
    /\ IF ~running["enrich"]
       THEN worker' = [IdleWorker EXCEPT !.msg = worker.msg, !.cause = "interrupted"]
       ELSE IF ~IsJson(Msg("image_processing", worker.msg).body)
       THEN Abandon("bad_json")
       ELSE IF worker.product_id = 0
       THEN worker' = [worker EXCEPT !.pc = "delete", !.cause = "invalid"]
       ELSE IF worker.product_id \in DOMAIN products
       THEN worker' = [worker EXCEPT !.pc = "download",
                                     !.product = products[worker.product_id]]
       ELSE FailRun("not_found")
    /\ UNCHANGED <<dbVars, txnVars, prompts, s3, queue, sent, runs>>
    /\ UNCHANGED <<syncVars, running, response, stop_called, orderVars>>

\* process_product: raw_image = download_image(product.raw_image)
W_Download(outcome) ==
    /\ worker.pc = "download"
    /\ IF outcome = "ok"
       THEN worker' = [worker EXCEPT !.pc = "title"]
       ELSE FailRun(outcome)
    /\ UNCHANGED <<dbVars, txnVars, prompts, s3, queue, sent, runs>>
    /\ UNCHANGED <<syncVars, running, response, stop_called, orderVars>>

\* generate_title_and_description is defined with one parameter
\* (image_path) and called with two (raw_image, category_name): the call
\* raises TypeError, which the inner except turns into the placeholder
TitleCallRaises == TRUE

\* product.sku.lower()
Lower(sku) == <<"lower", sku>>

\* process_product step 1: title, description and handle on the session row
W_GenerateText ==
    /\ worker.pc = "title"
    /\ worker' = [worker EXCEPT
            !.pc = "prompt",
            !.title = IF TitleCallRaises THEN worker.product.sku ELSE <<"generated">>,
            !.description = IF TitleCallRaises THEN "" ELSE "generated",
            !.handle = IF TitleCallRaises THEN Lower(worker.product.sku)
                       ELSE <<"generated">>]
    /\ UNCHANGED <<dbVars, txnVars, prompts, s3, queue, sent, runs>>
    /\ UNCHANGED <<syncVars, running, response, stop_called, orderVars>>

\* class Prompt declares no is_default column: evaluating Prompt.is_default
\* in the default-prompt query raises AttributeError
PromptHasIsDefault == FALSE

\* process_product: branch on is_raw_image and prompt selection
W_SelectPrompt ==
    /\ worker.pc = "prompt"
    /\ IF ~worker.is_raw_image
       THEN worker' = [worker EXCEPT !.pc = "copy"]
       ELSE IF worker.prompt_id # 0
       THEN IF /\ worker.prompt_id \in DOMAIN prompts
               /\ prompts[worker.prompt_id].is_active
            THEN worker' = [worker EXCEPT !.pc = "generate", !.i = 1]
            ELSE FailRun("prompt_not_found")
       ELSE IF PromptHasIsDefault
       THEN worker' = [worker EXCEPT !.pc = "generate", !.i = 1]
       ELSE FailRun("default_prompt_lookup")
    /\ UNCHANGED <<dbVars, txnVars, prompts, s3, queue, sent, runs>>
    /\ UNCHANGED <<syncVars, running, response, stop_called, orderVars>>

\* mutant: the variant loop stops one iteration early
LastVariant_OffByOne(i) == i = ENHANCED_IMAGES_COUNT - 1

\* for i in range(1, ai_images_count + 1): the loop ends after call i
LastVariant(i) == i = ENHANCED_IMAGES_COUNT

\* one gemini_service._do_generate_image call
W_Generate(outcome) ==
    /\ worker.pc = "generate"
    /\ IF outcome = "ok"
       THEN worker' = [worker EXCEPT
                !.gen_calls = @ + 1,
                !.pc = IF LastVariant(worker.i) THEN "upload" ELSE "generate",
                !.i = IF LastVariant(worker.i) THEN 1 ELSE @ + 1]
       ELSE FailRun("generate")
    /\ UNCHANGED <<dbVars, txnVars, prompts, s3, queue, sent, runs>>
    /\ UNCHANGED <<syncVars, running, response, stop_called, orderVars>>

\* one s3_service.upload_file call of the loop over ai_images
W_Upload(outcome) ==
    /\ worker.pc = "upload"
    /\ LET key == S3Key(worker.product.sku, worker.i, ValidatedExt)
       IN IF outcome = "ok"
          THEN /\ s3' = Put(s3, key, "ai")
               /\ worker' = [worker EXCEPT
                    !.created_image_urls = Append(@, key),
                    !.pc = IF LastVariant(worker.i) THEN "commit" ELSE "upload",
                    !.i = @ + 1]
          ELSE /\ FailRun("upload")
               /\ UNCHANGED s3
    /\ UNCHANGED <<dbVars, txnVars, prompts, queue, sent, runs>>
    /\ UNCHANGED <<syncVars, running, response, stop_called, orderVars>>

\* is_raw_image False: the downloaded source image is uploaded as <sku>-1
W_Copy(outcome) ==
    /\ worker.pc = "copy"
    /\ LET key == S3Key(worker.product.sku, 1, ValidatedExt)
       IN IF outcome = "ok"
          THEN /\ s3' = Put(s3, key, "source")
               /\ worker' = [worker EXCEPT !.created_image_urls = <<key>>,
                                           !.pc = "commit"]
          ELSE /\ FailRun("upload")
               /\ UNCHANGED s3
    /\ UNCHANGED <<dbVars, txnVars, prompts, queue, sent, runs>>
    /\ UNCHANGED <<syncVars, running, response, stop_called, orderVars>>

\* mutant: the direct-copy row is left for review like an AI variant
NewImageStatus_AlwaysPending(is_raw_image) == "pending"

\* status of the ProductImage rows a run adds
NewImageStatus(is_raw_image) == IF is_raw_image THEN "pending" ELSE "approved"

\* ProductImage(...) rows for created_image_urls
NewImages(pid, urls, is_raw_image, prompt_id) ==
    {[id |-> images_id_seq + k, product_id |-> pid, image_url |-> urls[k],
      status |-> NewImageStatus(is_raw_image),
      prompt_id |-> IF is_raw_image THEN prompt_id ELSE 0] : k \in DOMAIN urls}

\* mutant: the status assignment is lost from the transaction
Flushed_NoStatus(row, loaded, w) ==
    [row EXCEPT !.title = w.title, !.description = w.description,
                !.handle = w.handle]

\* the UPDATE the unit of work emits: only attributes whose session value
\* differs from the loaded value are written
Flushed(row, loaded, w) ==
    [row EXCEPT
        !.title = IF w.title # loaded.title THEN w.title ELSE @,
        !.description = IF w.description # loaded.description THEN w.description ELSE @,
        !.handle = IF w.handle # loaded.handle THEN w.handle ELSE @,
        !.status = IF "pending_review" # loaded.status THEN "pending_review" ELSE @]

\* ghost: consecutive successful AI-branch runs on an unchanged product,
\* counted up to 2
CountRun(n, is_raw_image) == IF ~is_raw_image THEN 0 ELSE IF n < 2 THEN n + 1 ELSE n

\* mutant: the except clause returns without db.session.rollback(), and the
\* changes staged on the thread's session reach the database
AfterRollback_KeepsStaged(committed, staged) == staged

\* except Exception: db.session.rollback(): what a table holds afterwards
AfterRollback(committed, staged) == committed

\* product.status = 'pending_review', delete_raw_image_by_url and
\* db.session.commit(): one transaction
W_Commit(outcome) ==
    /\ worker.pc = "commit"
    /\ LET pid == worker.product_id
           staged_products ==
                IF pid \in DOMAIN products
                THEN Put(products, pid, Flushed(products[pid], worker.product, worker))
                ELSE products
           staged_images == product_images \cup
                        NewImages(pid, worker.created_image_urls,
                                  worker.is_raw_image, worker.prompt_id)
       IN IF outcome = "ok" /\ pid \in DOMAIN products
          THEN /\ products' = staged_products
               /\ product_images' = staged_images
               /\ images_id_seq' = images_id_seq + Len(worker.created_image_urls)
               /\ raw_images' = raw_images \ {pid}
               /\ runs' = [runs EXCEPT ![pid] = CountRun(@, worker.is_raw_image)]
               /\ worker' = [worker EXCEPT !.pc = "delete", !.success = "True"]
          ELSE /\ FailRun("commit")
               /\ products' = AfterRollback(products, staged_products)
               /\ product_images' = AfterRollback(product_images, staged_images)
               /\ raw_images' = AfterRollback(raw_images, raw_images \ {pid})
               /\ UNCHANGED <<images_id_seq, runs>>
    /\ UNCHANGED <<sku_sequence_number, products_id_seq, txnVars, prompts,
                   s3, queue, sent>>
    /\ UNCHANGED <<syncVars, running, response, stop_called, orderVars>>

\* run(): sqs_service.delete_message(message['ReceiptHandle']); a failed
\* delete is logged by the inner except and the loop polls again
W_Delete(outcome) ==
    /\ worker.pc = "delete"
    /\ queue' = IF outcome = "ok" THEN Remove("image_processing", worker.msg)
                ELSE queue
    /\ worker' = IF outcome = "ok" THEN IdleWorker
                 ELSE [IdleWorker EXCEPT !.pc = AfterError]
    /\ UNCHANGED <<dbVars, txnVars, prompts, s3, sent, runs>>
    /\ UNCHANGED <<syncVars, running, response, stop_called, orderVars>>

\* broker: the visibility timeout of an undeleted message expires
Redeliver(q, m) ==
    /\ m \in queue[q]
    /\ ~m.visible
    /\ m.receives < MaxDeliveries
    /\ queue' = [queue EXCEPT ![q] = (@ \ {m}) \cup {[m EXCEPT !.visible = TRUE]}]
    /\ UNCHANGED <<dbVars, txnVars, prompts, s3, sent, worker, runs>>
    /\ UNCHANGED <<syncVars, running, response, stop_called, orderVars>>

(* ------------------------- API layer, one request per step ------------- *)
\* extension of the raw_image url of a request (os.path.splitext), ".jpg"
\* when the url has none
UrlExts == {".jpg", ".png"}
\* category and purchase month of the requests in the pipeline
\* specifications (the allocator is exercised by SpecSku)
PipelineCategories == {1}
PipelineMonths == {"0124"}

\* the body of sqs_service.send_message(product_id) as bulk_create_products
\* calls it: no prompt_id, and is_raw_image at the default of the parameter
BulkMessage(product_id) ==
    [product_id |-> product_id, prompt_id |-> 0, is_raw_image |-> FALSE]

\* bulk_create_products for a request of one product, run to completion:
\* allocation and insert, db.session.commit(), and only then the direct copy
\* (product with is_raw_image False; a failed copy is re-raised and answered
\* 500 after a rollback that finds the products already committed) or
\* sqs_service.send_message(product_id) (product with is_raw_image True; a
\* failed send is logged and the request still answers 201).  registered: the
\* raw_image url has a row in raw_images; outcome: result of the copy / of
\* the send
bulk_create_products(c, purchase_month, is_raw_image, ext, registered, outcome) ==
    /\ products_id_seq < MaxProducts
    /\ LET id == products_id_seq + 1
           g == generate_sku(sku_sequence_number[c], c, purchase_month)
           key == S3Key(g.sku, 1, ext)
           copied == ~is_raw_image /\ outcome = "ok"
           queued == is_raw_image /\ outcome = "ok"
                        /\ sent["image_processing"] < MaxMessages
       IN /\ ~SkuTaken(g.sku, 0)
          /\ is_raw_image => ext = ".jpg"
          /\ products_id_seq' = id
          /\ sku_sequence_number' = [sku_sequence_number EXCEPT ![c] = g.counter]
          /\ allocLog' = [allocLog EXCEPT ![c] = Append(@, g.sequence_number)]
          /\ products' = Put(products, id,
                NewProduct(id, c, g, purchase_month,
                           IF is_raw_image THEN "pending" ELSE "pending_review"))
          /\ s3' = IF copied THEN Put(s3, key, "source") ELSE s3
          /\ product_images' = IF copied
                THEN product_images \cup
                        {[id |-> images_id_seq + 1, product_id |-> id,
                          image_url |-> key, status |-> "approved", prompt_id |-> 0]}
                ELSE product_images
          /\ images_id_seq' = IF copied THEN images_id_seq + 1 ELSE images_id_seq
          /\ raw_images' = IF registered /\ ~copied THEN raw_images \cup {id}
                           ELSE raw_images
          /\ queue' = IF queued
                THEN Enqueue("image_processing", BulkMessage(id))
                ELSE queue
          /\ sent' = IF queued THEN [sent EXCEPT !["image_processing"] = @ + 1] ELSE sent
          /\ response' = Response("bulk_create_products",
                                  IF ~is_raw_image /\ outcome = "fail" THEN "500" ELSE "201",
                                  id)
    /\ UNCHANGED <<rowLock, txn, requests, prompts, worker, runs>>
    /\ UNCHANGED <<syncVars, running, stop_called, orderVars>>

\* sqs_service.send_message(product_id, prompt_id, is_raw_image)
send_message(product_id, prompt_id, is_raw_image) ==
    /\ sent["image_processing"] < MaxMessages
    /\ queue' = Enqueue("image_processing",
                        [product_id |-> product_id, prompt_id |-> prompt_id,
                         is_raw_image |-> is_raw_image])
    /\ sent' = [sent EXCEPT !["image_processing"] = @ + 1]
    /\ UNCHANGED <<dbVars, txnVars, prompts, s3, worker, runs>>
    /\ UNCHANGED <<syncVars, running, response, stop_called, orderVars>>

\* a producer other than this API puts a body that is not JSON on a queue
send_raw(q) ==
    /\ sent[q] < MaxMessages
    /\ queue' = Enqueue(q, [raw |-> "not json"])
    /\ sent' = [sent EXCEPT ![q] = @ + 1]
    /\ UNCHANGED <<dbVars, txnVars, prompts, s3, worker, runs>>
    /\ UNCHANGED <<syncVars, running, response, stop_called, orderVars>>

\* Prompt(category_id=..., is_active=...): the row as inserted; is_default is
\* the column scripts/add_is_default_to_prompts.py adds to the table
\* (BOOLEAN NOT NULL DEFAULT false), which class Prompt does not declare
NewPrompt(c, is_active) == [category_id |-> c, is_active |-> is_active, is_default |-> FALSE]

\* create_prompt: Prompt(..., is_active=data.get('is_active', True))
create_prompt(c, is_active) ==
    /\ \E id \in PromptIds \ DOMAIN prompts :
          prompts' = Put(prompts, id, NewPrompt(c, is_active))
    /\ UNCHANGED <<dbVars, txnVars, s3, queue, sent, worker, runs>>
    /\ UNCHANGED <<syncVars, running, response, stop_called, orderVars>>

\* bulk_create_prompts: one Prompt per entry of the request, one commit
bulk_create_prompts(cats, is_active) ==
    /\ Len(cats) > 0
    /\ Cardinality(DOMAIN prompts) + Len(cats) <= MaxPrompts
    /\ LET n == Cardinality(DOMAIN prompts)
       IN prompts' = [id \in DOMAIN prompts \cup (n + 1)..(n + Len(cats)) |->
                        IF id \in DOMAIN prompts THEN prompts[id]
                        ELSE NewPrompt(cats[id - n], is_active)]
    /\ UNCHANGED <<dbVars, txnVars, s3, queue, sent, worker, runs>>
    /\ UNCHANGED <<syncVars, running, response, stop_called, orderVars>>

\* Prompt.query.get_or_404(prompt_id) inside try: the NotFound it raises is
\* caught by 'except Exception' and answered 500
PromptMissing(op, prompt_id) ==
    /\ prompt_id \notin DOMAIN prompts
    /\ response' = Response(op, "500", prompt_id)
    /\ UNCHANGED prompts

\* update_prompt with category and is_active in the payload: the fields are
\* assigned, is_default is not among them; commit
update_prompt(prompt_id, c, is_active) ==
    /\ \/ PromptMissing("update_prompt", prompt_id)
       \/ /\ prompt_id \in DOMAIN prompts
          /\ prompts' = [prompts EXCEPT ![prompt_id].category_id = c,
                                         ![prompt_id].is_active = is_active]
          /\ response' = Response("update_prompt", "200", prompt_id)
    /\ UNCHANGED <<dbVars, txnVars, s3, queue, sent, worker, runs>>
    /\ UNCHANGED <<syncVars, running, stop_called, orderVars>>

\* the rows after Prompt.query.filter(category_id == ..., is_default == True,
\* id != prompt_id).update({'is_default': False}); prompt.is_default = True
DefaultSet(prompt_id) ==
    [q \in DOMAIN prompts |->
        IF q = prompt_id THEN [prompts[q] EXCEPT !.is_default = TRUE]
        ELSE IF prompts[q].category_id = prompts[prompt_id].category_id
        THEN [prompts[q] EXCEPT !.is_default = FALSE]
        ELSE prompts[q]]

\* set_default_prompt: the filter expression evaluates Prompt.is_default on
\* the class; without the column declared that raises AttributeError, which
\* 'except Exception' answers with rollback and 500
set_default_prompt(prompt_id) ==
    /\ \/ PromptMissing("set_default_prompt", prompt_id)
       \/ /\ prompt_id \in DOMAIN prompts
          /\ IF PromptHasIsDefault
             THEN /\ prompts' = DefaultSet(prompt_id)
                  /\ response' = Response("set_default_prompt", "200", prompt_id)
             ELSE /\ response' = Response("set_default_prompt", "500", prompt_id)
                  /\ UNCHANGED prompts
    /\ UNCHANGED <<dbVars, txnVars, s3, queue, sent, worker, runs>>
    /\ UNCHANGED <<syncVars, running, stop_called, orderVars>>

\* unset_default_prompt: prompt.is_default = False; commit. Without the
\* column declared the assignment makes a plain instance attribute and the
\* commit writes nothing
unset_default_prompt(prompt_id) ==
    /\ \/ PromptMissing("unset_default_prompt", prompt_id)
       \/ /\ prompt_id \in DOMAIN prompts
          /\ prompts' = IF PromptHasIsDefault
                        THEN [prompts EXCEPT ![prompt_id].is_default = FALSE]
                        ELSE prompts
          /\ response' = Response("unset_default_prompt", "200", prompt_id)
    /\ UNCHANGED <<dbVars, txnVars, s3, queue, sent, worker, runs>>
    /\ UNCHANGED <<syncVars, running, stop_called, orderVars>>

\* update_product with a changed category or purchase_month, run to
\* completion: generate_sku on the category row, the new sku, sequence number,
\* category and purchase_month assigned to the product, one commit (a sku
\* that another product holds fails the commit and everything rolls back)
update_product(pid, c, purchase_month) ==
    /\ requests < MaxRequests
    /\ pid \in DOMAIN products
    /\ c # products[pid].category_id \/ purchase_month # products[pid].purchase_month
    /\ requests' = requests + 1
    /\ LET g == generate_sku(sku_sequence_number[c], c, purchase_month)
       IN IF SkuTaken(g.sku, pid)
          THEN UNCHANGED <<products, sku_sequence_number, allocLog>>
          ELSE /\ products' = [products EXCEPT ![pid] =
                                [@ EXCEPT !.sku = g.sku,
                                          !.sku_sequence_number = g.sequence_number,
                                          !.category_id = c,
                                          !.purchase_month = purchase_month]]
               /\ sku_sequence_number' = [sku_sequence_number EXCEPT ![c] = g.counter]
               /\ allocLog' = [allocLog EXCEPT ![c] = Append(@, g.sequence_number)]
    /\ UNCHANGED <<product_images, raw_images, products_id_seq, images_id_seq,
                   rowLock, txn, prompts, s3, queue, sent, worker, runs>>
    /\ UNCHANGED <<syncVars, running, response, stop_called, orderVars>>

\* update_product_status: product.status = new_status; commit
update_product_status(pid, new_status) ==
    /\ pid \in DOMAIN products
    /\ products[pid].status # new_status
    /\ products' = [products EXCEPT ![pid].status = new_status]
    /\ runs' = [runs EXCEPT ![pid] = 0]
    /\ UNCHANGED <<sku_sequence_number, product_images, raw_images,
                   products_id_seq, images_id_seq, txnVars, prompts, s3,
                   queue, sent, worker>>
    /\ UNCHANGED <<syncVars, running, response, stop_called, orderVars>>

\* delete_product: s3_service.delete_file per image (a failure is logged),
\* then the product row, its images by cascade
delete_product(pid, outcome) ==
    /\ pid \in DOMAIN products
    /\ s3' = IF outcome = "ok"
             THEN [k \in DOMAIN s3 \ {r.image_url : r \in ImagesOf(pid)} |-> s3[k]]
             ELSE s3
    /\ products' = [q \in DOMAIN products \ {pid} |-> products[q]]
    /\ product_images' = product_images \ ImagesOf(pid)
    /\ runs' = [runs EXCEPT ![pid] = 0]
    /\ UNCHANGED <<sku_sequence_number, raw_images, products_id_seq,
                   images_id_seq, txnVars, prompts, queue, sent, worker>>
    /\ UNCHANGED <<syncVars, running, response, stop_called, orderVars>>

\* the row of a product image, looked up by id and product_id
ImageRow(pid, iid) == {r \in product_images : r.id = iid /\ r.product_id = pid}

\* the table with the status of one row rewritten
WithStatus(r, status) == (product_images \ {r}) \cup {[r EXCEPT !.status = status]}

\* approve_product_image: image.status = 'approved'; commit
approve_product_image(pid, iid) ==
    /\ pid \in DOMAIN products
    /\ \E r \in ImageRow(pid, iid) :
          /\ r.status # "approved"
          /\ product_images' = WithStatus(r, "approved")
    /\ UNCHANGED <<sku_sequence_number, products, raw_images, products_id_seq,
                   images_id_seq, txnVars, prompts, s3, queue, sent, worker, runs>>
    /\ UNCHANGED <<syncVars, running, response, stop_called, orderVars>>

\* reject_product_image: the row is deleted and committed, then the object
\* is deleted from S3 (a failure is logged)
reject_product_image(pid, iid, outcome) ==
    /\ pid \in DOMAIN products
    /\ \E r \in ImageRow(pid, iid) :
          /\ product_images' = product_images \ {r}
          /\ s3' = IF outcome = "ok"
                   THEN [k \in DOMAIN s3 \ {r.image_url} |-> s3[k]]
                   ELSE s3
    /\ UNCHANGED <<sku_sequence_number, products, raw_images, products_id_seq,
                   images_id_seq, txnVars, prompts, queue, sent, worker, runs>>
    /\ UNCHANGED <<syncVars, running, response, stop_called, orderVars>>

\* update_image_status: image.status = new_status for any of the three
\* valid statuses; commit
update_image_status(pid, iid, new_status) ==
    /\ pid \in DOMAIN products
    /\ \E r \in ImageRow(pid, iid) :
          /\ r.status # new_status
          /\ product_images' = WithStatus(r, new_status)
    /\ UNCHANGED <<sku_sequence_number, products, raw_images, products_id_seq,
                   images_id_seq, txnVars, prompts, s3, queue, sent, worker, runs>>
    /\ UNCHANGED <<syncVars, running, response, stop_called, orderVars>>

\* generate_product_image with a prompt_text in the payload, run to
\* completion: next_index = len(product.product_images) + 1, the generated
\* image uploaded under product-images/<sku>-<next_index>.jpg and added as a
\* pending row; a failed download, generation or upload changes nothing
generate_product_image(pid, outcome) ==
    /\ requests < MaxRequests
    /\ pid \in DOMAIN products
    /\ requests' = requests + 1
    /\ LET next_index == Cardinality(ImagesOf(pid)) + 1
           key == S3Key(products[pid].sku, next_index, ValidatedExt)
       IN IF outcome = "ok"
          THEN /\ s3' = Put(s3, key, "ai")
               /\ product_images' = product_images \cup
                        {[id |-> images_id_seq + 1, product_id |-> pid,
                          image_url |-> key, status |-> "pending", prompt_id |-> 0]}
               /\ images_id_seq' = images_id_seq + 1
          ELSE UNCHANGED <<s3, product_images, images_id_seq>>
    /\ UNCHANGED <<sku_sequence_number, products, raw_images, products_id_seq,
                   rowLock, txn, allocLog, prompts, queue, sent, worker, runs>>
    /\ UNCHANGED <<syncVars, running, response, stop_called, orderVars>>

(* ============================ catalog sync ============================= *)
(* The loop as it runs in a deployment whose app.config sets               *)
(* CATALOG_SYNC_QUEUE_URL and the Shopify credentials.                     *)
IdleSync ==
    [pc |-> "receive", msg |-> 0, product_id |-> 0, product |-> NoRow,
     image_urls |-> {}, existing |-> 0, calls |-> <<>>,
     success |-> None, cause |-> None]

\* sync_product_to_shopify returned False: the message is not deleted
FailSync(cause) ==
    syncw' = [IdleSync EXCEPT !.msg = syncw.msg, !.calls = syncw.calls,
                              !.success = "False", !.cause = cause]

\* run(): self.running = True, the first statement of the thread
S_Start ==
    /\ syncw.pc = "start"
    /\ running' = [running EXCEPT !["sync"] = TRUE]
    /\ syncw' = IdleSync
    /\ UNCHANGED <<dbVars, txnVars, prompts, s3, queue, sent, worker, runs, shopify, response, stop_called, orderVars>>

\* CatalogSyncWorker.stop()
stop_catalog_sync_worker ==
    /\ syncw.pc # "stopped"
    /\ running["sync"]
    /\ running' = [running EXCEPT !["sync"] = FALSE]
    /\ stop_called' = [stop_called EXCEPT !["sync"] = TRUE]
    /\ UNCHANGED <<dbVars, txnVars, prompts, s3, queue, sent, worker, runs, syncVars, response, orderVars>>

\* CatalogSyncWorker.stop() between start() and the first statement of run()
stop_catalog_sync_worker_at_start ==
    /\ syncw.pc = "start"
    /\ ~stop_called["sync"]
    /\ running' = [running EXCEPT !["sync"] = FALSE]
    /\ stop_called' = [stop_called EXCEPT !["sync"] = TRUE]
    /\ UNCHANGED <<dbVars, txnVars, prompts, s3, queue, sent, worker, runs, syncVars, response, orderVars>>

\* while self.running: evaluated False, run() returns
S_Exit ==
    /\ syncw.pc = "receive"
    /\ ~running["sync"]
    /\ syncw' = [syncw EXCEPT !.pc = "stopped"]
    /\ UNCHANGED <<dbVars, txnVars, prompts, s3, queue, sent, worker, runs, shopify, running, response, stop_called, orderVars>>

\* run(): receive_messages raised; the outer except logs, sleeps and the
\* loop goes on
S_ReceiveFails ==
    /\ syncw.pc = "receive"
    /\ running["sync"]
    /\ syncw.cause # "receive_error"
    /\ syncw' = [IdleSync EXCEPT !.pc = AfterError, !.cause = "receive_error"]
    /\ UNCHANGED <<dbVars, txnVars, prompts, s3, queue, sent, worker, runs, shopify, running, response, stop_called, orderVars>>

\* run(): one message received from the catalog_sync queue; its parsed body
\* is kept in the locals
S_Receive(m) ==
    /\ syncw.pc = "receive"
    /\ running["sync"]
    /\ m \in queue["catalog_sync"]
    /\ m.visible
    /\ queue' = Hide("catalog_sync", m)
    /\ syncw' = [IdleSync EXCEPT
            !.pc = "load",
            !.msg = m.id, !.product_id = Get(m.body, "product_id")]
    /\ UNCHANGED <<dbVars, txnVars, prompts, s3, sent, worker, runs, shopify, running, response, stop_called, orderVars>>

SyncEligible_Always(status) == TRUE

\* if product.status != 'live': skip
SyncEligible(status) == status = "live"

\* run(): if not self.running: break; then the parse of the body, and
\* sync_product_to_shopify: Product.query.get, status check, image query
S_Load ==
    /\ syncw.pc = "load"
    /\ LET pid == syncw.product_id
       IN IF ~running["sync"]
          THEN syncw' = [IdleSync EXCEPT !.msg = syncw.msg, !.cause = "interrupted"]
          ELSE IF ~IsJson(Msg("catalog_sync", syncw.msg).body)
          THEN syncw' = [syncw EXCEPT !.pc = "delete", !.cause = "bad_json"]
          ELSE IF pid = 0
          THEN syncw' = [syncw EXCEPT !.pc = "delete", !.cause = "invalid"]
          ELSE IF pid \notin DOMAIN products
          THEN FailSync("not_found")
          ELSE IF ~SyncEligible(products[pid].status)
          THEN syncw' = [syncw EXCEPT !.pc = "delete", !.success = "True",
                                      !.cause = "not_live"]
          ELSE syncw' = [syncw EXCEPT !.pc = "find", !.product = products[pid],
                            !.image_urls = {r.image_url : r \in ImagesOf(pid)}]
    /\ UNCHANGED <<dbVars, txnVars, prompts, s3, queue, sent, worker, runs, shopify, running, response, stop_called, orderVars>>

\* the remote lookup: id of the listing that has a variant with this sku
FindBySku(sku) ==
    IF \E l \in shopify : l.sku = sku
    THEN (CHOOSE l \in shopify : l.sku = sku).id
    ELSE 0

\* shopify_service.find_product_by_sku(sku)
S_Find(outcome) ==
    /\ syncw.pc = "find"
    /\ IF outcome = "ok"
       THEN syncw' = [syncw EXCEPT !.pc = "upsert",
                                   !.existing = FindBySku(syncw.product.sku),
                                   !.calls = Append(@, "find")]
       ELSE FailSync("remote")
    /\ UNCHANGED <<dbVars, txnVars, prompts, s3, queue, sent, worker, runs, shopify, running, response, stop_called, orderVars>>

ListingFound_Never(existing) == FALSE

\* if existing_product:
ListingFound(existing) == existing # 0

\* title = product.title or f"Product {product.sku}" etc.
Listing(id, product, image_urls) ==
    [id |-> id, sku |-> product.sku,
     title |-> IF product.title = NullText THEN <<"Product", product.sku>>
               ELSE product.title,
     description |-> IF product.description = None THEN "" ELSE product.description,
     images |-> [u \in image_urls |-> 1]]

\* what an update_product call that returns can have done to the images:
\* every response of the DELETE and POST image calls is only counted
UpdateOutcomes == {"ok", "fail", "delete_refused", "add_refused"}

\* update_product, "Handle images if provided": one DELETE per image of the
\* listing, then one POST per url; a refused call is skipped (url -> count)
Replaced(old_images, image_urls, outcome) ==
    [u \in (IF outcome = "delete_refused" THEN DOMAIN old_images ELSE {})
            \cup (IF outcome = "add_refused" THEN {} ELSE image_urls) |->
        (IF outcome = "delete_refused" /\ u \in DOMAIN old_images
         THEN old_images[u] ELSE 0)
            + (IF outcome # "add_refused" /\ u \in image_urls THEN 1 ELSE 0)]

\* the listing an update writes: title, description, and the images when
\* the product has any; the variant's sku is not rewritten
Updated(l, product, image_urls, outcome) ==
    [Listing(l.id, product, image_urls) EXCEPT
        !.sku = l.sku,
        !.images = IF image_urls = {} THEN l.images
                   ELSE Replaced(l.images, image_urls, outcome)]

\* shopify_service.update_product(...) or shopify_service.create_product(...)
\* (a remote call that raises, as an update of an id the store does not
\* have, makes sync_product_to_shopify return False)
S_Upsert(outcome) ==
    /\ syncw.pc = "upsert"
    /\ outcome \in Outcomes \/ (ListingFound(syncw.existing) /\ syncw.image_urls # {})
    /\ LET call == IF ListingFound(syncw.existing) THEN "update" ELSE "create"
           old == {l \in shopify : l.id = syncw.existing}
           new == IF call = "create"
                  THEN {Listing(Cardinality(shopify) + 1, syncw.product,
                                syncw.image_urls)}
                  ELSE {Updated(l, syncw.product, syncw.image_urls, outcome) : l \in old}
       IN IF outcome # "fail" /\ new # {}
          THEN /\ shopify' = (shopify \ old) \cup new
               /\ syncw' = [syncw EXCEPT !.pc = "delete", !.success = "True",
                                         !.calls = Append(@, call)]
          ELSE /\ UNCHANGED shopify
               /\ FailSync("remote")
    /\ UNCHANGED <<dbVars, txnVars, prompts, s3, queue, sent, worker, runs, running, response, stop_called, orderVars>>

\* run(): sqs_service.delete_message(..., queue_type='catalog_sync')
S_Delete(outcome) ==
    /\ syncw.pc = "delete"
    /\ queue' = IF outcome = "ok" THEN Remove("catalog_sync", syncw.msg) ELSE queue
    /\ syncw' = [IdleSync EXCEPT !.msg = syncw.msg, !.calls = syncw.calls,
                                 !.pc = IF outcome = "ok" THEN "receive" ELSE AfterError,
                                 !.success = syncw.success,
                                 !.cause = syncw.cause]
    /\ UNCHANGED <<dbVars, txnVars, prompts, s3, sent, worker, runs, shopify, running, response, stop_called, orderVars>>

\* sqs_service.send_catalog_sync_message(product_id, action)
send_catalog_sync_message(product_id) ==
    /\ sent["catalog_sync"] < MaxMessages
    /\ queue' = Enqueue("catalog_sync", [product_id |-> product_id])
    /\ sent' = [sent EXCEPT !["catalog_sync"] = @ + 1]
    /\ UNCHANGED <<dbVars, txnVars, prompts, s3, worker, runs, syncVars, running, response, stop_called, orderVars>>

InitDb ==
    /\ sku_sequence_number = [c \in Categories |-> 0]
    /\ products = EmptyMap
    /\ product_images = {}
    /\ raw_images = {}
    /\ products_id_seq = 0
    /\ images_id_seq = 0

InitTxn ==
    /\ rowLock = [c \in Categories |-> NoTxn]
    /\ txn = [t \in Txns |-> IdleTxn]
    /\ allocLog = [c \in Categories |-> <<>>]
    /\ requests = 0


(* ============================== orders ================================= *)
\* inventory = db.Column(db.Integer, nullable=False, default=1): the value a
\* product row has from its insert on (no schema of the API carries the field)
DefaultInventory == 1

\* PlaceOrderSchema: quantity = fields.Int(validate=Range(min=1))
Quantities == 1..MaxQuantity

\* a request thread outside place_order
IdleOrder == [pc |-> "idle", product_id |-> 0, quantity |-> 0, inventory |-> 0]

\* place_order up to the inventory check: Product.query.filter_by(sku).first()
\* loads the row into the session of the request (no FOR UPDATE); 404 when
\* there is none, 400 when product.inventory < quantity
place_order_check(t, pid, quantity) ==
    /\ orders[t].pc \in {"idle", "committed"}
    /\ requests < MaxRequests
    /\ requests' = requests + 1
    /\ orders' = [orders EXCEPT ![t] =
                    IF pid \in DOMAIN products /\ ~(inventory[pid] < quantity)
                    THEN [pc |-> "checked", product_id |-> pid,
                          quantity |-> quantity, inventory |-> inventory[pid]]
                    ELSE IdleOrder]
    /\ UNCHANGED <<dbVars, rowLock, txn, allocLog, prompts, s3, queue, sent,
                   worker, runs, syncVars, running, response, stop_called,
                   inventory>>

\* place_order: shopify_service.create_order; a failure is answered 500 and
\* the inventory is not touched
place_order_remote(t, outcome) ==
    /\ orders[t].pc = "checked"
    /\ orders' = [orders EXCEPT ![t] =
                    IF outcome = "ok" THEN [@ EXCEPT !.pc = "ordered"] ELSE IdleOrder]
    /\ UNCHANGED <<dbVars, txnVars, prompts, s3, queue, sent, worker, runs,
                   syncVars, running, response, stop_called, inventory>>

\* mutant: the decrement is evaluated by the database on the committed value
Decremented_InDatabase(loaded, committed, quantity) == committed - quantity

\* product.inventory -= quantity: evaluated in Python on the attribute the
\* session loaded; the UPDATE of the commit writes the result as a value
Decremented(loaded, committed, quantity) == loaded - quantity

\* place_order: product.inventory -= quantity; db.session.commit(); a failed
\* commit is rolled back and answered 500
place_order_commit(t, outcome) ==
    /\ orders[t].pc = "ordered"
    /\ LET pid == orders[t].product_id
       IN IF outcome = "ok" /\ pid \in DOMAIN products
          THEN /\ inventory' = [inventory EXCEPT ![pid] =
                        Decremented(orders[t].inventory, @, orders[t].quantity)]
               /\ orders' = [orders EXCEPT ![t].pc = "committed"]
          ELSE /\ orders' = [orders EXCEPT ![t] = IdleOrder]
               /\ UNCHANGED inventory
    /\ UNCHANGED <<dbVars, txnVars, prompts, s3, queue, sent, worker, runs,
                   syncVars, running, response, stop_called>>

InitPipeline ==
    /\ prompts = EmptyMap
    /\ s3 = EmptyMap
    /\ queue = [q \in QueueTypes |-> {}]
    /\ sent = [q \in QueueTypes |-> 0]
    /\ worker = [IdleWorker EXCEPT !.pc = "start"]
    /\ runs = [p \in 1..MaxProducts |-> 0]
    /\ syncw = [IdleSync EXCEPT !.pc = "start"]
    /\ shopify = {}
    /\ running = [w \in {"enrich", "sync"} |-> FALSE]
    /\ response = NoResponse
    /\ stop_called = [w \in {"enrich", "sync"} |-> FALSE]
    /\ inventory = [p \in 1..MaxProducts |-> DefaultInventory]
    /\ orders = [t \in Txns |-> IdleOrder]

Init == InitDb /\ InitTxn /\ InitPipeline

NextSku ==
    \E t \in Txns :
        \/ \E n \in 1..MaxBatch : BulkBegin(t, n)
        \/ \E c \in Categories, m \in PurchaseMonths : BulkGenerate(t, c, m)
        \/ BulkReject(t)
        \/ BulkFlush(t)
        \/ BulkCommit(t)
        \/ \E pid \in DOMAIN products, c \in Categories, m \in PurchaseMonths :
                UpdateBegin(t, pid, c, m)
        \/ UpdateCommit(t)

SpecSku == Init /\ [][NextSku]_vars

\* generate_sku on counters of every digit count: the categories start at a
\* committed counter value that earlier allocations (or update_category)
\* left, just below a power of ten
CounterStarts == {0, 8, 98, 998, 9998}

InitCounters ==
    /\ \E n \in CounterStarts : sku_sequence_number = [c \in Categories |-> n]
    /\ products = EmptyMap
    /\ product_images = {}
    /\ raw_images = {}
    /\ products_id_seq = 0
    /\ images_id_seq = 0
    /\ InitTxn
    /\ InitPipeline

SpecGenerateSku == InitCounters /\ [][NextSku]_vars

\* the allocating transactions together with the category API
NextCategory ==
    \/ NextSku
    \/ \E c \in Categories, n \in 0..MaxBatch : update_category(c, n)

SpecCategory == Init /\ [][NextCategory]_vars

NextEnrich ==
    \/ \E c \in PipelineCategories, m \in PipelineMonths, raw \in BOOLEAN, ext \in UrlExts,
          reg \in BOOLEAN, o \in Outcomes : bulk_create_products(c, m, raw, ext, reg, o)
    \/ \E pid \in 1..products_id_seq, pr \in {0} \cup PromptIds, raw \in BOOLEAN :
          send_message(pid, pr, raw)
    \/ \E c \in PipelineCategories, a \in BOOLEAN : create_prompt(c, a)
    \/ \E pid \in DOMAIN products, st \in {"live", "rejected"} :
          update_product_status(pid, st)
    \/ \E pid \in DOMAIN products, o \in Outcomes : delete_product(pid, o)
    \/ send_raw("image_processing")
    \/ W_Start
    \/ stop_worker
    \/ W_Exit
    \/ W_ReceiveFails
    \/ \E m \in queue["image_processing"] : W_Receive(m)
    \/ W_Load
    \/ \E o \in DownloadOutcomes : W_Download(o)
    \/ W_GenerateText
    \/ W_SelectPrompt
    \/ \E o \in Outcomes : W_Generate(o)
    \/ \E o \in Outcomes : W_Upload(o)
    \/ \E o \in Outcomes : W_Copy(o)
    \/ \E o \in Outcomes : W_Commit(o)
    \/ \E o \in Outcomes : W_Delete(o)
    \/ \E q \in QueueTypes : \E m \in queue[q] : Redeliver(q, m)

SpecEnrich == Init /\ [][NextEnrich]_vars

NextSync ==
    \/ \E c \in PipelineCategories, m \in PipelineMonths, raw \in BOOLEAN, ext \in UrlExts,
          reg \in BOOLEAN, o \in Outcomes : bulk_create_products(c, m, raw, ext, reg, o)
    \/ \E pid \in DOMAIN products, st \in {"live", "rejected"} :
          update_product_status(pid, st)
    \/ \E pid \in DOMAIN products, o \in Outcomes : delete_product(pid, o)
    \/ \E pid \in 1..products_id_seq : send_catalog_sync_message(pid)
    \/ send_raw("catalog_sync")
    \/ S_Start
    \/ stop_catalog_sync_worker
    \/ S_Exit
    \/ S_ReceiveFails
    \/ \E m \in queue["catalog_sync"] : S_Receive(m)
    \/ S_Load
    \/ \E o \in Outcomes : S_Find(o)
    \/ \E o \in UpdateOutcomes : S_Upsert(o)
    \/ \E o \in Outcomes : S_Delete(o)
    \/ \E q \in QueueTypes : \E m \in queue[q] : Redeliver(q, m)

SpecSync == Init /\ [][NextSync]_vars

\* the catalog-sync loop next to update_product
NextStable ==
    \/ NextSync
    \/ \E pid \in DOMAIN products, c \in Categories, m \in PurchaseMonths :
          update_product(pid, c, m)

SpecStable == Init /\ [][NextStable]_vars

\* the image review API next to the enrichment loop
ImageStatuses == {"pending", "approved", "rejected"}

NextImages ==
    \/ \E c \in PipelineCategories, m \in PipelineMonths, raw \in BOOLEAN, ext \in UrlExts,
          reg \in BOOLEAN, o \in Outcomes : bulk_create_products(c, m, raw, ext, reg, o)
    \/ \E pid \in 1..products_id_seq, pr \in {0} \cup PromptIds, raw \in BOOLEAN :
          send_message(pid, pr, raw)
    \/ \E c \in PipelineCategories, a \in BOOLEAN : create_prompt(c, a)
    \/ \E pid \in DOMAIN products, iid \in 1..images_id_seq :
          approve_product_image(pid, iid)
    \/ \E pid \in DOMAIN products, iid \in 1..images_id_seq, o \in Outcomes :
          reject_product_image(pid, iid, o)
    \/ \E pid \in DOMAIN products, iid \in 1..images_id_seq, st \in ImageStatuses :
          update_image_status(pid, iid, st)
    \/ W_Start
    \/ \E m \in queue["image_processing"] : W_Receive(m)
    \/ W_Load
    \/ \E o \in DownloadOutcomes : W_Download(o)
    \/ W_GenerateText
    \/ W_SelectPrompt
    \/ \E o \in Outcomes : W_Generate(o)
    \/ \E o \in Outcomes : W_Upload(o)
    \/ \E o \in Outcomes : W_Copy(o)
    \/ \E o \in Outcomes : W_Commit(o)
    \/ \E o \in Outcomes : W_Delete(o)

SpecImages == Init /\ [][NextImages]_vars

\* creation, direct-copy enrichment runs, image rejection and
\* generate_product_image
NextKeys ==
    \/ \E c \in PipelineCategories, m \in PipelineMonths, raw \in BOOLEAN, ext \in UrlExts,
          reg \in BOOLEAN, o \in Outcomes : bulk_create_products(c, m, raw, ext, reg, o)
    \/ \E pid \in DOMAIN products, iid \in 1..images_id_seq, o \in Outcomes :
          reject_product_image(pid, iid, o)
    \/ \E pid \in DOMAIN products, o \in Outcomes : generate_product_image(pid, o)
    \/ W_Start
    \/ \E m \in queue["image_processing"] : W_Receive(m)
    \/ W_Load
    \/ \E o \in DownloadOutcomes : W_Download(o)
    \/ W_GenerateText
    \/ W_SelectPrompt
    \/ \E o \in Outcomes : W_Copy(o)
    \/ \E o \in Outcomes : W_Commit(o)
    \/ \E o \in Outcomes : W_Delete(o)
    \/ \E q \in QueueTypes : \E m \in queue[q] : Redeliver(q, m)

SpecKeys == Init /\ [][NextKeys]_vars

\* the prompt API
CategoryLists == UNION {[1..n -> Categories] : n \in 1..MaxPrompts}

NextPrompts ==
    \/ \E cats \in CategoryLists, a \in BOOLEAN : bulk_create_prompts(cats, a)
    \/ \E p \in 1..MaxPrompts, c \in Categories, a \in BOOLEAN : update_prompt(p, c, a)
    \/ \E p \in 1..MaxPrompts : set_default_prompt(p)
    \/ \E p \in 1..MaxPrompts : unset_default_prompt(p)

SpecPrompts == Init /\ [][NextPrompts]_vars

\* start and stop of the two worker threads, with the loops polling queues
\* that hold bodies no handler accepts
NextStop ==
    \/ \E q \in QueueTypes : send_raw(q)
    \/ W_Start
    \/ stop_worker
    \/ stop_worker_at_start
    \/ W_Exit
    \/ W_ReceiveFails
    \/ \E m \in queue["image_processing"] : W_Receive(m)
    \/ W_Load
    \/ S_Start
    \/ stop_catalog_sync_worker
    \/ stop_catalog_sync_worker_at_start
    \/ S_Exit
    \/ S_ReceiveFails
    \/ \E m \in queue["catalog_sync"] : S_Receive(m)
    \/ S_Load
    \/ \E o \in Outcomes : S_Delete(o)
    \/ \E q \in QueueTypes : \E m \in queue[q] : Redeliver(q, m)

SpecStop == Init /\ [][NextStop]_vars

(* ------------------------------ C1, C2 --------------------------------- *)
\* C1: no two committed products of one category share a sequence number,
\* under every interleaving of the allocating write transactions.
C1_NoSharedSequenceNumber ==
    \A p, q \in DOMAIN products :
        (p # q /\ products[p].category_id = products[q].category_id)
            => products[p].sku_sequence_number # products[q].sku_sequence_number

\* C2: for a category whose counter starts at 0, the sequence numbers of the
\* committed allocations are exactly 1..k, k the number of committed
\* allocations (hence without duplicate).
C2_CommittedSequenceExact ==
    \A c \in Categories : Range(allocLog[c]) = 1..Len(allocLog[c])

(* --------------------------- C3 .. C5, C8 .. C10 ----------------------- *)
\* the step in which process_product commits its transaction
EnrichCommitted == worker.pc = "commit" /\ worker'.pc = "delete"
ImagesAfter(pid) == {r \in product_images' : r.product_id = pid}

\* C3: two successful runs of the AI branch on an unchanged product leave
\* exactly ENHANCED_IMAGES_COUNT image rows and status pending_review.
C3_SecondRunKeepsNRows ==
    \A p \in DOMAIN products :
        runs[p] = 2 => /\ Cardinality(ImagesOf(p)) = ENHANCED_IMAGES_COUNT
                       /\ products[p].status = "pending_review"

\* C4: a successful run with is_raw_image True on a product without images
\* leaves exactly ENHANCED_IMAGES_COUNT image rows, all pending.
C4_RawRunAddsNPending ==
    [][(EnrichCommitted /\ worker.is_raw_image /\ ImagesOf(worker.product_id) = {})
        => /\ Cardinality(ImagesAfter(worker.product_id)) = ENHANCED_IMAGES_COUNT
           /\ \A r \in ImagesAfter(worker.product_id) : r.status = "pending"]_vars

C4_Witness ==
    /\ worker.pc = "delete" /\ worker.success = "True" /\ worker.is_raw_image
    /\ worker.product_id \in DOMAIN products
    /\ runs[worker.product_id] = 1
    /\ Cardinality(ImagesOf(worker.product_id)) = ENHANCED_IMAGES_COUNT

\* C5: a successful run with is_raw_image False on a product without images
\* leaves exactly one image row, approved, whose url holds the copy of the
\* source image, and the run made no image-generation call.
C5_DirectCopyAddsOneApproved ==
    [][(EnrichCommitted /\ ~worker.is_raw_image /\ ImagesOf(worker.product_id) = {})
        => /\ \E r \in ImagesAfter(worker.product_id) :
                /\ ImagesAfter(worker.product_id) = {r}
                /\ r.status = "approved"
                /\ r.image_url \in DOMAIN s3
                /\ s3[r.image_url] = "source"
           /\ worker.gen_calls = 0]_vars

C5_Witness ==
    /\ worker.pc = "delete" /\ worker.success = "True" /\ ~worker.is_raw_image
    /\ worker.product_id \in DOMAIN products
    /\ \E r \in product_images :
          /\ ImagesOf(worker.product_id) = {r}
          /\ r.status = "approved"
          /\ s3[r.image_url] = "source"

\* C6: handling a message (the running flag still set when the handling
\* starts) whose product exists with a status other than live makes no call to the remote catalog, leaves the catalog as it was,
\* and goes on to delete the message; the delete, when SQS accepts it,
\* removes the message.
C6_NonLiveSkipsRemote ==
    /\ [][(syncw.pc = "load" /\ syncw' # syncw /\ running["sync"]
            /\ syncw.product_id \in DOMAIN products
            /\ products[syncw.product_id].status # "live")
          => /\ syncw'.pc = "delete"
             /\ syncw'.success = "True"
             /\ syncw'.calls = <<>>
             /\ shopify' = shopify]_vars
    /\ [][(syncw.pc = "delete" /\ syncw.cause = "not_live" /\ syncw' # syncw)
          => /\ syncw'.calls = <<>>
             /\ shopify' = shopify
             /\ queue' \in {queue, Remove("catalog_sync", syncw.msg)}]_vars

C6_Witness ==
    /\ syncw.pc = "receive" /\ syncw.cause = "not_live" /\ syncw.calls = <<>>
    /\ syncw.msg # 0 /\ syncw.msg \notin Queued("catalog_sync")
    /\ \E p \in DOMAIN products : products[p].status # "live"

\* C7: a successful sync of a live product makes, after the lookup, exactly
\* one call: update (the set of listings keeps its size) when a listing with
\* the SKU exists, create (one listing more) when none exists.
C7_UpdateIffFound ==
    [][(syncw.pc = "upsert" /\ syncw'.pc = "delete")
        => IF \E l \in shopify : l.sku = syncw.product.sku
           THEN /\ syncw'.calls = <<"find", "update">>
                /\ Cardinality(shopify') = Cardinality(shopify)
           ELSE /\ syncw'.calls = <<"find", "create">>
                /\ Cardinality(shopify') = Cardinality(shopify) + 1]_vars

C7_Witness ==
    /\ syncw.pc = "delete" /\ syncw.success = "True"
    /\ syncw.calls = <<"find", "update">>
    /\ Cardinality(shopify) = 1

\* C8: after the handling of a message whose source-image fetch returned
\* 404 the message is deleted from the queue, and the handling left the
\* product row as it was (still pending).
C8_Fetch404DeletesMessage ==
    /\ []((worker.pc = "receive" /\ worker.cause = "http_404")
            => worker.msg \notin Queued("image_processing"))
    /\ [][(worker.pc = "download" /\ worker'.cause = "http_404")
            => products' = products]_vars

\* C9: after the handling of a message whose product row does not exist
\* the message is deleted from the queue, in the enrichment loop and in the
\* catalog-sync loop.
C9_MissingProductDeletesMessage ==
    /\ (worker.pc = "receive" /\ worker.cause = "not_found")
            => worker.msg \notin Queued("image_processing")
    /\ (syncw.pc = "receive" /\ syncw.cause = "not_found")
            => syncw.msg \notin Queued("catalog_sync")

\* C10: the worker writes the database only in its commit step, and that
\* step writes together the status (no longer pending, pending_review when
\* it was pending), the text of the run and one image row per output of
\* the run.
C10_AtomicAdvance ==
    [][(worker' # worker /\ <<products, product_images, raw_images>>'
                              # <<products, product_images, raw_images>>)
        => LET pid == worker.product_id
           IN /\ EnrichCommitted
              /\ pid \in DOMAIN products /\ pid \in DOMAIN products'
              /\ products'[pid].status # "pending"
              /\ products[pid].status = "pending"
                    => products'[pid].status = "pending_review"
              /\ products'[pid].title = worker.title
              /\ products'[pid].description = worker.description
              /\ products'[pid].handle = worker.handle
              /\ worker.created_image_urls # <<>>
              /\ {r.image_url : r \in ImagesAfter(pid) \ ImagesOf(pid)}
                    = Range(worker.created_image_urls)
              /\ Cardinality(ImagesAfter(pid) \ ImagesOf(pid))
                    = Len(worker.created_image_urls)]_vars

C10_Witness ==
    /\ worker.pc = "delete" /\ worker.success = "True"
    /\ worker.product_id \in DOMAIN products
    /\ worker.product.status = "pending"
    /\ products[worker.product_id].status = "pending_review"
    /\ products[worker.product_id].title = worker.title
    /\ ImagesOf(worker.product_id) # {}

(* ------------------------------ C11 .. C13 ----------------------------- *)
\* the enrichment loop calls delete_message
EnrichDeleteCalled == worker.pc = "delete" /\ worker' # worker

\* C11: for a message carrying a product_id the enrichment loop calls
\* delete_message only after process_product committed for that delivery
\* (the database changes only in that commit step), and a handling that
\* ends before the commit leaves the queue as it was, the message on it.
C11_DeleteOnlyAfterCommit ==
    /\ [][(EnrichDeleteCalled /\ worker.product_id # 0)
            => worker.success = "True"]_vars
    /\ [][(worker.pc \in {"load", "download", "title", "prompt", "generate",
                          "upload", "copy", "commit"}
            /\ worker' # worker /\ worker'.pc \notin {"delete", "stopped"}
            /\ worker.success # "True")
            => /\ queue' = queue
               /\ worker.msg \in Queued("image_processing")
               /\ (worker.pc # "commit" \/ worker'.pc # "delete")
                     => <<products, product_images, raw_images>>'
                            = <<products, product_images, raw_images>>]_vars

C11_Witness ==
    /\ worker.pc = "receive" /\ worker.success = "False" /\ worker.cause = "commit"
    /\ worker.msg \in Queued("image_processing")
    /\ ImagesOf(1) = {}

C13_StopFinishesInFlight ==
    [][/\ (worker' # worker /\ ~running["enrich"] /\ worker.pc = "load")
            => worker'.cause # "interrupted"
       /\ (worker' # worker /\ ~running["enrich"] /\ worker.pc = "receive")
            => (worker'.pc = "stopped" /\ queue' = queue)
       /\ (syncw' # syncw /\ ~running["sync"] /\ syncw.pc = "load")
            => syncw'.cause # "interrupted"
       /\ (syncw' # syncw /\ ~running["sync"] /\ syncw.pc = "receive")
            => (syncw'.pc = "stopped" /\ queue' = queue)]_vars

(* ------------------------------ C14 .. C20 ----------------------------- *)
\* C14: in every step a product that becomes live or rejected was
\* pending_review before, and a product that leaves pending becomes
\* pending_review, in the commit step of an enrichment.
C14_StatusTransitions ==
    [][\A p \in DOMAIN products \cap DOMAIN products' :
          /\ (products'[p].status \in {"live", "rejected"}
                /\ products'[p].status # products[p].status)
                => products[p].status = "pending_review"
          /\ (products[p].status = "pending" /\ products'[p].status # "pending")
                => (products'[p].status = "pending_review" /\ EnrichCommitted)]_vars

\* C15: in every step an image row that changes status was pending and
\* becomes approved or rejected, in a step of the API (the worker does not
\* move); and the rows a run of the AI-generation path adds are pending.
C15_ImageStatusTransitions ==
    [][/\ \A r \in product_images : \A r2 \in product_images' :
            (r2.id = r.id /\ r2.status # r.status)
                => /\ r.status = "pending"
                   /\ r2.status \in {"approved", "rejected"}
                   /\ worker' = worker
       /\ (EnrichCommitted /\ worker.is_raw_image)
            => \A r2 \in product_images' \ product_images : r2.status = "pending"]_vars

Added(q) == queue'[q] \ queue[q]

\* C17: a step that commits a new product in status pending adds an
\* enrichment message for it (unless the send raised, which leaves the queue
\* as it was), and a step in which a product's status becomes live adds a
\* catalog-sync message for that product.
C17_EnqueueOnCreateAndLive ==
    [][/\ \A p \in DOMAIN products' \ DOMAIN products :
            (products'[p].status = "pending" /\ queue' # queue)
                => \E m \in Added("image_processing") : m.body.product_id = p
       /\ \A p \in DOMAIN products \cap DOMAIN products' :
            (products[p].status # "live" /\ products'[p].status = "live")
                => \E m \in Added("catalog_sync") : m.body.product_id = p]_vars

\* a step that commits an allocating transaction (bulk_create_products or
\* update_product after generate_sku ran in it)
AllocatorCommits ==
    \E t \in Txns : txn[t].pc \in {"commit", "upd_commit"} /\ txn'[t].pc = "idle"

\* C18: the committed counter of a category never decreases, and it changes
\* only in the commit of a transaction in which generate_sku ran.
C18_CounterMonotoneAllocatorOnly ==
    [][\A c \in Categories :
            /\ sku_sequence_number'[c] >= sku_sequence_number[c]
            /\ sku_sequence_number'[c] # sku_sequence_number[c] => AllocatorCommits]_vars

\* C19: a bulk_create_products request that is answered with an error leaves
\* no product of the request committed and every category counter at the
\* value committed before the request.
C19_ErrorResponseCommitsNothing ==
    [][(/\ response' # response
        /\ response'.op = "bulk_create_products"
        /\ response'.code # "201")
            => /\ products' = products
               /\ sku_sequence_number' = sku_sequence_number]_vars

\* the prompts of category c that are marked default
Defaults(c) == {p \in DOMAIN prompts : prompts[p].category_id = c /\ prompts[p].is_default}

Synced(p) == \E l \in shopify : l.sku = products[p].sku

RECURSIVE Decimal(_)
Decimal(ds) ==
    IF ds = <<>> THEN 0 ELSE 10 * Decimal(SubSeq(ds, 1, Len(ds) - 1)) + ds[Len(ds)]

\* transaction t calls generate_sku in this step (bulk_create_products loop
\* iteration or update_product)
GenerateSkuCalled(t) ==
    \/ txn[t].pc = "loop" /\ txn'[t].pc = "flush"
    \/ txn[t].pc = "idle" /\ txn'[t].pc = "upd_commit"

\* C22: generate_sku increments the category counter by exactly 1, returns
\* the new counter value as sequence number, and the sku PREFIX-SEQ-PERIOD
\* with SEQ the sequence number zero-padded to 4 digits; prefix NECK, period
\* 0124 and counters 0, 1, 2 give NECK-0001-0124, NECK-0002-0124,
\* NECK-0003-0124.
C22_GenerateSkuFormat ==
    [][\A t \in Txns : GenerateSkuCalled(t) =>
          LET row == txn'[t].cur
              c == row.category_id
              before == LoadCounter(txn[t].sess, c)
              seq == row.sku[2]
          IN /\ txn'[t].sess[c] = before + 1
             /\ row.sku_sequence_number = before + 1
             /\ row.sku[1] = Prefix(c)
             /\ row.sku[3] = row.purchase_month
             /\ \A i \in DOMAIN seq : seq[i] \in 0..9
             /\ Decimal(seq) = before + 1
             /\ Len(seq) >= 4
             /\ Len(seq) > 4 => seq[1] # 0
             /\ (c = 1 /\ row.purchase_month = "0124" /\ before \in 0..2)
                    => row.sku = <<"NECK", <<0, 0, 0, before + 1>>, "0124">>]_vars

\* the third sequential allocation of category NECK for period 0124 from
\* counter 0 is committed
C22_Witness ==
    \E p \in DOMAIN products :
        /\ products[p].sku = <<"NECK", <<0, 0, 0, 3>>, "0124">>
        /\ products[p].sku_sequence_number = 3
        /\ allocLog[1] = <<1, 2, 3>>

\* the steps of process_product for the message in hand
Handling == {"load", "download", "title", "prompt", "generate", "upload", "copy", "commit"}

\* the enrichment attempt in hand ends in failure in this step
AttemptFails == worker.pc \in Handling /\ worker'.success = "False"

C24_LateMessageKeepsStatus ==
    [][EnrichCommitted =>
          \A p \in DOMAIN products \cap DOMAIN products' :
              products[p].status \in {"live", "rejected"}
                  => products'[p].status = products[p].status]_vars

\* C25: when the handler commits for the message bulk_create_products
\* enqueued for a product it created in status pending, the rows the commit
\* adds are the N generated images, all pending, and not one approved copy
\* of the source image.
C25_BulkMessageTakesAiBranch ==
    [][\A p \in DOMAIN products :
          (/\ EnrichCommitted
           /\ worker.product_id = p
           /\ products[p].status = "pending"
           /\ worker.msg \in Queued("image_processing")
           /\ Msg("image_processing", worker.msg).body = BulkMessage(p))
            => LET added == ImagesAfter(p) \ ImagesOf(p)
               IN /\ Cardinality(added) = ENHANCED_IMAGES_COUNT
                  /\ \A r \in added : r.status = "pending"]_vars

\* C26: once stop() has been called on a started worker thread, its running
\* flag is not True again: whatever run() was doing, its next evaluation of
\* the flag ends the loop.
C26_StopNeverLost ==
    [][\A w \in {"enrich", "sync"} : stop_called[w] => ~running'[w]]_vars

\* C27: in every reachable state no two ProductImage rows hold the same
\* image_url (storage key).
C27_KeyReferencedOnce ==
    \A r1, r2 \in product_images : r1.image_url = r2.image_url => r1 = r2


(* -------------------------------- C28 ---------------------------------- *)
\* bodies neither loop can hand to its handler: text that json.loads
\* rejects, and a JSON object without product_id
MalformedBodies == {[raw |-> "not json"], [prompt_id |-> 0, is_raw_image |-> TRUE]}

\* a producer other than this API puts a malformed body on a queue
send_malformed(q, body) ==
    /\ sent[q] < MaxMessages
    /\ queue' = Enqueue(q, body)
    /\ sent' = [sent EXCEPT ![q] = @ + 1]
    /\ UNCHANGED <<dbVars, txnVars, prompts, s3, worker, runs>>
    /\ UNCHANGED <<syncVars, running, response, stop_called, orderVars>>

\* the two loops polling queues that hold malformed bodies
NextMalformed ==
    \/ \E q \in QueueTypes, body \in MalformedBodies : send_malformed(q, body)
    \/ W_Start
    \/ W_ReceiveFails
    \/ \E m \in queue["image_processing"] : W_Receive(m)
    \/ W_Load
    \/ \E o \in Outcomes : W_Delete(o)
    \/ S_Start
    \/ S_ReceiveFails
    \/ \E m \in queue["catalog_sync"] : S_Receive(m)
    \/ S_Load
    \/ \E o \in Outcomes : S_Delete(o)
    \/ \E q \in QueueTypes : \E m \in queue[q] : Redeliver(q, m)

SpecMalformed == Init /\ [][NextMalformed]_vars

\* the body of the message a loop holds is malformed
Malformed(q, id) ==
    /\ \E m \in queue[q] : m.id = id
    /\ Msg(q, id).body \in MalformedBodies

\* C28: a loop that has parsed a malformed body (not JSON, or JSON without
\* product_id) goes on to delete_message without calling its handler, in
\* the enrichment loop and in the catalog-sync loop alike.
C28_MalformedDeletedWithoutHandler ==
    /\ [][(/\ worker.pc = "load"
           /\ running["enrich"]
           /\ Malformed("image_processing", worker.msg)
           /\ worker' # worker) => worker'.pc = "delete"]_vars
    /\ [][(/\ syncw.pc = "load"
           /\ running["sync"]
           /\ Malformed("catalog_sync", syncw.msg)
           /\ syncw' # syncw) => syncw'.pc = "delete"]_vars


(* -------------------------------- C29 ---------------------------------- *)
\* broker: the visibility timeout of an undeleted message expires; the queue
\* has no redrive policy (scripts/setup_sqs_queue.py), so there is no limit
\* on deliveries and the count saturates below MaxDeliveries
Reappear(q, m) ==
    /\ m \in queue[q]
    /\ ~m.visible
    /\ queue' = [queue EXCEPT ![q] = (@ \ {m}) \cup
                    {[m EXCEPT !.visible = TRUE,
                               !.receives = IF @ < MaxDeliveries THEN @
                                            ELSE MaxDeliveries - 1]}]
    /\ UNCHANGED <<dbVars, txnVars, prompts, s3, sent, worker, runs>>
    /\ UNCHANGED <<syncVars, running, response, stop_called, orderVars>>

\* the enrichment loop, never stopped, handling messages that name no prompt;
\* delete_message succeeds
NextLive ==
    \/ \E c \in PipelineCategories, m \in PipelineMonths, raw \in BOOLEAN, ext \in UrlExts,
          reg \in BOOLEAN, o \in Outcomes : bulk_create_products(c, m, raw, ext, reg, o)
    \/ \E pid \in 1..products_id_seq, raw \in BOOLEAN : send_message(pid, 0, raw)
    \/ W_Start
    \/ W_ReceiveFails
    \/ \E m \in queue["image_processing"] : W_Receive(m)
    \/ W_Load
    \/ \E o \in DownloadOutcomes : W_Download(o)
    \/ W_GenerateText
    \/ W_SelectPrompt
    \/ \E o \in Outcomes : W_Copy(o)
    \/ \E o \in Outcomes : W_Commit(o)
    \/ W_Delete("ok")
    \/ \E m \in queue["image_processing"] : Reappear("image_processing", m)

\* the thread is scheduled and the broker redelivers (weak fairness of the
\* loop's own steps and of the timeout); every external call that is tried
\* again and again eventually succeeds (strong fairness of its success)
FairLive ==
    /\ WF_vars(W_Start)
    /\ WF_vars(\E m \in queue["image_processing"] : W_Receive(m))
    /\ WF_vars(W_Load)
    /\ WF_vars(W_GenerateText)
    /\ WF_vars(W_SelectPrompt)
    /\ WF_vars(\E m \in queue["image_processing"] : Reappear("image_processing", m))
    /\ SF_vars(W_Download("ok"))
    /\ SF_vars(W_Copy("ok"))
    /\ SF_vars(W_Commit("ok"))
    /\ WF_vars(W_Delete("ok"))

SpecLive == Init /\ [][NextLive]_vars /\ FairLive

\* an enrichment message for product pid is on the queue
EnrichmentQueued(pid) ==
    \E m \in queue["image_processing"] : IsJson(m.body) /\ Get(m.body, "product_id") = pid

\* product pid is pending and has an enrichment message on the queue
PendingQueued(pid) ==
    /\ pid \in DOMAIN products
    /\ products[pid].status = "pending"
    /\ EnrichmentQueued(pid)

\* product pid is in pending_review and its message is deleted
Enriched(pid) ==
    /\ pid \in DOMAIN products
    /\ products[pid].status = "pending_review"
    /\ ~EnrichmentQueued(pid)

\* C29: with the broker redelivering, the loop running fairly and each
\* external call eventually succeeding, every pending product with an
\* enrichment message on the queue eventually reaches pending_review with
\* its message deleted.
C29_EnrichmentLiveness ==
    \A pid \in 1..MaxProducts : PendingQueued(pid) ~> Enriched(pid)


(* -------------------------------- C30 ---------------------------------- *)
\* product creation and concurrent place_order requests
NextOrders ==
    \/ \E c \in PipelineCategories, m \in PipelineMonths, raw \in BOOLEAN, ext \in UrlExts,
          reg \in BOOLEAN, o \in Outcomes : bulk_create_products(c, m, raw, ext, reg, o)
    \/ \E t \in Txns, pid \in 1..MaxProducts, quantity \in Quantities :
          place_order_check(t, pid, quantity)
    \/ \E t \in Txns, o \in Outcomes : place_order_remote(t, o)
    \/ \E t \in Txns, o \in Outcomes : place_order_commit(t, o)

SpecOrders == Init /\ [][NextOrders]_vars

\* C30: after any sequence and any interleaving of place_order requests the
\* committed inventory of every product is >= 0.
C30_InventoryNonNegative ==
    \A pid \in DOMAIN products : inventory[pid] >= 0

\* two requests for one product passed the check on the same loaded
\* inventory and both committed their decrement
C30_Witness ==
    \E t1, t2 \in Txns :
        /\ t1 # t2
        /\ orders[t1].pc = "committed"
        /\ orders[t2].pc = "committed"
        /\ orders[t1].product_id = orders[t2].product_id
        /\ orders[t1].inventory = orders[t2].inventory
        /\ inventory[orders[t1].product_id] = 0

====
